---- MODULE Spec2Model ----
(***************************************************************************)
(* Valley-bottom extraction per level path (packages/vbet/vbet/vbet.py):   *)
(* vbet_centerlines, generate_vbet_polygon.                                *)
(*                                                                         *)
(* Rasters are functions Cells -> Int on a GridH x GridW grid, row-major.  *)
(* Evidence values are exact rationals scaled by Scale (1.0 = Scale), so   *)
(* that the mean of one, two or three normalised layers is an integer.     *)
(* Strings are sequences of character codes, compared as Python compares   *)
(* str values (by code point, then by length).                             *)
(***************************************************************************)
EXTENDS Integers, Sequences, FiniteSets, TLC

VARIABLES
    pc,                 \* position of vbet_centerlines in the current run
    run,                \* number of runs started in this project folder
    network,            \* LevelPathI of every flowline feature (run input)
    level_paths,        \* the caller's level_paths argument (run input)
    chan_of,            \* channel-area shape of each level-path group (run input)
    level_paths_to_run, \* the list built at lines 200-210
    idx,                \* index of the loop at line 215 into level_paths_to_run
    rasterized_channel, \* temp raster of the current level path
    hand_raster,        \* temp local HAND raster of the current level path
    evidence_raster,    \* temp evidence raster of the current level path
    valley_bottom_raster, \* temp full valley-bottom mask (threshold 0.68)
    active_valley_bottom_raster, \* temp active mask (threshold 0.90)
    out_hand,           \* composite HAND file: [exists, data], each cell [v, by]
    out_vbet_evidence,  \* composite evidence file, likewise (by: the level path
                        \* whose local raster the value was read from)
    lyr_vbet,           \* LevelPathI of the merges into the full-extent layer
    lyr_vbet_ia,        \* LevelPathI of the merges into the active layer
    lyr_cl,             \* LevelPathI of the features of the centerline layer
    processed,          \* history: level paths whose iteration completed, in order
    products,           \* history: local rasters and mask of each processed level path
    merge_log,          \* history: branch taken by each composite merge of this run
    past,               \* history: outcome of the completed runs, by run number
    block,              \* pixel inputs of one window of the evidence fusion
    fused,              \* fused value written for that window
    vb,                 \* stages of one generate_vbet_polygon call
    exception,          \* the exception that ended the run, "none" otherwise
    exit_code,          \* <<code>> once main has called sys.exit(code)
    taudem,             \* the global TauDEM calls of a run and their outcomes
    cl,                 \* centerline stage: endpoints, geometries, feature written
    mg,                 \* one composite merge, window by window
    fz,                 \* evidence fusion of one pixel under a configuration
    cs                  \* stages of one generate_centerline_surface call

vars == <<pc, run, network, level_paths, chan_of, level_paths_to_run, idx,
          rasterized_channel, hand_raster, evidence_raster, valley_bottom_raster,
          active_valley_bottom_raster, out_hand, out_vbet_evidence,
          lyr_vbet, lyr_vbet_ia, lyr_cl, processed,
          products, merge_log, past, block, fused, vb,
          exception, exit_code, taudem, cl, mg, fz, cs>>

-----------------------------------------------------------------------------
(* Bounds of the model *)
\* MaxPts: sample points of the plane a geometry is observed at;
\* MaxPaths: level paths the centerline stage is followed through.
MaxPts == 3
MaxPaths == 2

GridW == 11
GridH == 5
MaxRuns == 3

(* Program constants *)

Scale == 6000
SieveThreshold == 10
ClosingIterations == 2
NoData == -9999

-----------------------------------------------------------------------------
(* Strings *)

\* str(n) for a natural number n: its decimal digits as character codes.
RECURSIVE Str(_)
Str(n) == IF n < 10 THEN <<48 + n>> ELSE Append(Str(n \div 10), 48 + (n % 10))

\* int(s) for a string of decimal digits.
RECURSIVE ToInt(_)
ToInt(s) == IF Len(s) = 0 THEN 0
            ELSE 10 * ToInt(SubSeq(s, 1, Len(s) - 1)) + (s[Len(s)] - 48)

\* s < t as Python orders str values.
RECURSIVE StrLess(_, _)
StrLess(s, t) ==
    IF Len(s) = 0 THEN Len(t) > 0
    ELSE IF Len(t) = 0 THEN FALSE
    ELSE IF s[1] # t[1] THEN s[1] < t[1]
    ELSE StrLess(Tail(s), Tail(t))

\* The orphan group: the None appended at line 210.
None == <<0>>

-----------------------------------------------------------------------------
(* The list of level paths to run, vbet.py lines 200-210 *)

\* level_paths is [given, items]: given = FALSE is Python's None.
NoFilter == [given |-> FALSE, items |-> <<>>]

\* "if level_paths:" (line 207): None and the empty list are both false.
Truthy(lps) == lps.given /\ Len(lps.items) > 0

\* "level_path in level_paths" (line 208)
InList(s, items) == \E k \in 1..Len(items) : items[k] = s

\* str(int(level_path)) of every feature, then set(...) (lines 203-206)
UniqueLevelPaths(net) == {Str(net[i]) : i \in 1..Len(net)}

\* list(set(...)): the elements in an order the program does not control.
Orderings(S) ==
    {q \in [1..Cardinality(S) -> S] : \A i, j \in 1..Cardinality(S) : i # j => q[i] # q[j]}

\* The list comprehension of line 208.
RECURSIVE KeepListed(_, _)
KeepListed(list, items) ==
    IF Len(list) = 0 THEN <<>>
    ELSE IF InList(Head(list), items)
         THEN <<Head(list)>> \o KeepListed(Tail(list), items)
         ELSE KeepListed(Tail(list), items)

\* Insert s into an ascending list after every element that is not greater.
RECURSIVE InsertSorted(_, _)
InsertSorted(s, list) ==
    IF Len(list) = 0 THEN <<s>>
    ELSE IF StrLess(s, Head(list)) THEN <<s>> \o list
    ELSE <<Head(list)>> \o InsertSorted(s, Tail(list))

\* list.sort(reverse=False) on a list of str (line 209).
RECURSIVE SortAscending(_)
SortAscending(list) ==
    IF Len(list) = 0 THEN <<>>
    ELSE InsertSorted(list[Len(list)], SortAscending(SubSeq(list, 1, Len(list) - 1)))

\* str.split(',') (line 536): the pieces between the commas (code 44); a
\* string without a comma, the empty string included, is the one piece.
RECURSIVE SplitComma(_)
SplitComma(s) ==
    IF \A i \in 1..Len(s) : s[i] # 44 THEN <<s>>
    ELSE LET k == CHOOSE i \in 1..Len(s) :
                     s[i] = 44 /\ \A j \in 1..(i - 1) : s[j] # 44
         IN  <<SubSeq(s, 1, k - 1)>> \o SplitComma(SubSeq(s, k + 1, Len(s)))

\* Lines 536-537 of main: the level_paths argument that main passes to
\* vbet_centerlines for a value of args.level_paths; only the list ['.']
\* (code 46) becomes None.
MainLevelPaths(arg) ==
    LET split == SplitComma(arg)
    IN  IF split # << <<46>> >> THEN [given |-> TRUE, items |-> split] ELSE NoFilter

\* args.level_paths when the option is absent: default="" (line 514).
DefaultLevelPathsArg == <<>>

\* The values of args.level_paths of the model: the default, ".", "10"
\* and "9,11".
LevelPathsArgs == {DefaultLevelPathsArg, <<46>>, Str(10), Str(9) \o <<44>> \o Str(11)}

\* Lines 206-210 without the list comprehension of line 208.
LevelPathsToRunUnfiltered(order, lps) == Append(SortAscending(order), None)

\* Lines 206-210 applied to the set in the order `order`.
LevelPathsToRun(order, lps) ==
    Append(SortAscending(IF Truthy(lps) THEN KeepListed(order, lps.items) ELSE order), None)

-----------------------------------------------------------------------------
(* The grid *)

Cells == 0..(GridW * GridH - 1)
Row(c) == c \div GridW
Col(c) == c % GridW
CellAt(r, k) == r * GridW + k
InGrid(r, k) == r >= 0 /\ r < GridH /\ k >= 0 /\ k < GridW

\* A pixel read with masked=True is masked where it holds the no-data value.
Masked(v) == v = NoData

-----------------------------------------------------------------------------
(* Configuration returned by load_configuration (line 125) *)

\* vbet_run['Inputs']
Inputs == <<"Slope", "HAND", "TWI">>

\* vbet_run['Zones']: the metrics whose transform depends on the zone
Zones == {"Slope", "HAND"}

\* Raw metric values of the model; 0 is the value most typical of a valley bottom.
RawVals == 0..2

\* vbet_run['Transforms'][name]: one table per zone, raw value -> score in
\* [0, Scale], each monotonic. A transform is applied to no-data cells too
\* (their result is masked afterwards); its value there is 0.
TransformTables ==
    [Slope |-> << <<Scale, 3600, 0>>, <<Scale, 5400, 1800>> >>,
     HAND  |-> << <<Scale, 3000, 0>>, <<Scale, 4800, 1200>> >>,
     TWI   |-> << <<0, 3000, Scale>> >>]

Transforms(name) == TransformTables[name]

ApplyTransform(table, raw) == IF raw \in RawVals THEN table[raw + 1] ELSE 0

\* A variant of ChooseClip that takes the first choice whatever the index.
ChooseFirst(index, choices) == choices[1]

\* np.choose(index, choices, mode='clip'): an index outside 0..n-1 is clipped.
ChooseClip(index, choices) ==
    choices[(IF index < 0 THEN 0
             ELSE IF index > Len(choices) - 1 THEN Len(choices) - 1
             ELSE index) + 1]

-----------------------------------------------------------------------------
(* Evidence fusion at one pixel, vbet.py lines 260-274.                     *)
(* px is the pixel of every raster of read_rasters: px.Slope, px.HAND,      *)
(* px.TWI, px.Channel, and px.zone[name] for the zone raster of a metric.   *)

\* normalized[name] (lines 263-268): [val, mask]
Normalized(name, px) ==
    [val  |-> IF name \in Zones
              THEN ChooseClip(px.zone[name],
                       [k \in 1..Len(Transforms(name)) |->
                            ApplyTransform(Transforms(name)[k], px[name])])
              ELSE ApplyTransform(Transforms(name)[1], px[name]),
     mask |-> Masked(px[name])]

\* np.ma.mean(list of masked arrays, axis=0) at one pixel: the mean of the
\* entries that are not masked; masked when every entry is.
RECURSIVE SumVals(_)
SumVals(layers) ==
    IF Len(layers) = 0 THEN 0
    ELSE (IF Head(layers).mask THEN 0 ELSE Head(layers).val) + SumVals(Tail(layers))

MaMean(layers) ==
    LET n == Cardinality({k \in 1..Len(layers) : ~layers[k].mask})
    IN  IF n = 0 THEN [val |-> 0, mask |-> TRUE]
        ELSE [val |-> SumVals(layers) \div n, mask |-> FALSE]

\* fvals_topo (line 270): always Slope, HAND and TWI
FvalsTopo(px) ==
    MaMean(<<Normalized("Slope", px), Normalized("HAND", px), Normalized("TWI", px)>>)

\* 0.995 in units of 1/Scale
ChannelConfidence == (995 * Scale) \div 1000

\* fvals_channel (line 271)
FvalsChannel(px) ==
    [val |-> ChannelConfidence * px.Channel, mask |-> Masked(px.Channel)]

\* np.maximum of two masked arrays (line 272): masked where either is.
MaMaximum(a, b) ==
    [val |-> IF a.val >= b.val THEN a.val ELSE b.val, mask |-> a.mask \/ b.mask]

FvalsEvidence(px) == MaMaximum(FvalsTopo(px), FvalsChannel(px))

\* np.ma.filled(..., out_meta['nodata']) as written at line 274
FusePixel(px) ==
    LET e == FvalsEvidence(px) IN IF e.mask THEN NoData ELSE e.val

-----------------------------------------------------------------------------
(* generate_vbet_polygon, vbet.py lines 412-444 *)

\* The two thresholds, in units of 1/Scale: 0.68 (default, line 412) and
\* 0.90 (line 286).
ThresholdFull == (68 * Scale) \div 100
ThresholdActive == (90 * Scale) \div 100

\* The 4 neighbours of a cell that lie in the raster.
Nbrs4(c) ==
    {CellAt(Row(c) + o[1], Col(c) + o[2]) : o \in
        {o \in {<<-1, 0>>, <<1, 0>>, <<0, -1>>, <<0, 1>>} :
            InGrid(Row(c) + o[1], Col(c) + o[2])}}

\* The 8 neighbours of a cell that lie in the raster.
Nbrs8(c) ==
    {CellAt(Row(c) + o[1], Col(c) + o[2]) : o \in
        {o \in {-1, 0, 1} \X {-1, 0, 1} :
            o # <<0, 0>> /\ InGrid(Row(c) + o[1], Col(c) + o[2])}}

\* The cells of S that an 8-connected chain inside S joins to the cells of F;
\* `front` are the cells of F added last.
RECURSIVE Grow(_, _, _)
Grow(S, F, front) ==
    LET N == (UNION {Nbrs8(e) : e \in front} \cap S) \ F
    IN  IF N = {} THEN F ELSE Grow(S, F \cup N, N)

Min(S) == CHOOSE x \in S : \A y \in S : x <= y

\* The 8-connected components of S, in raster-scan order of their first cell.
RECURSIVE Components(_)
Components(S) ==
    IF S = {} THEN <<>>
    ELSE LET comp == Grow(S, {Min(S)}, {Min(S)})
         IN  <<comp>> \o Components(S \ comp)

\* valley_bottom (line 420): vbet, chan and hand are the raw arrays
\* raster2array returns, no-data cells holding the no-data value.
RawValleyBottom(vbet, chan, hand, threshold) ==
    [c \in Cells |->
        IF (vbet[c] + chan[c] * Scale >= threshold) /\ (hand[c] + chan[c] > 0)
        THEN 1 ELSE 0]

\* gdal.SieveFilter(threshold=10, connectedness=8) on a 0/1 raster (line 428):
\* a polygon (an 8-connected component of equal value) of fewer than
\* SieveThreshold cells takes the value of its largest neighbour polygon, if
\* that neighbour has at least SieveThreshold cells. Sizes are those of the
\* input. In a 0/1 raster every neighbour polygon of a polygon holds the other
\* value.
SieveFilter(m) ==
    LET ones  == Components({c \in Cells : m[c] = 1})
        zeros == Components({c \in Cells : m[c] # 1})
        polys == {ones[i] : i \in 1..Len(ones)} \cup {zeros[i] : i \in 1..Len(zeros)}
        big   == {P \in polys : Cardinality(P) >= SieveThreshold}
        Touches(P, Q) == P # Q /\ (UNION {Nbrs8(e) : e \in P}) \cap Q # {}
        flips == UNION {P \in polys \ big : \E Q \in big : Touches(P, Q)}
    IN  [c \in Cells |-> IF c \in flips THEN 1 - m[c] ELSE m[c]]

\* scipy.ndimage.label with the 3x3 structure (lines 434-435): the 8-connected
\* components of the nonzero cells, numbered from 1 in raster-scan order of
\* their first cell.
Label(m) ==
    LET comps == Components({c \in Cells : m[c] # 0})
    IN  [c \in Cells |->
            IF m[c] = 0 THEN 0
            ELSE CHOOSE i \in 1..Len(comps) : c \in comps[i]]

\* np.unique: the distinct values in ascending order.
RECURSIVE SortedValues(_)
SortedValues(S) ==
    IF S = {} THEN <<>> ELSE <<Min(S)>> \o SortedValues(S \ {Min(S)})

\* The positions, counted from 0, of all the entries of values.
AllPositions(values) == {k - 1 : k \in 1..Len(values)}

\* values.nonzero() (line 438): the positions, counted from 0, of the nonzero
\* entries of values.
NonzeroPositions(values) == {k - 1 : k \in {j \in 1..Len(values) : values[j] # 0}}

\* valley_bottom_region (lines 436-438)
ValleyBottomRegion(regions, chan) ==
    LET selection == [c \in Cells |-> regions[c] * chan[c]]
        values    == SortedValues({selection[c] : c \in Cells})
    IN  [c \in Cells |-> IF regions[c] \in NonzeroPositions(values) THEN 1 ELSE 0]

\* One binary dilation / erosion with the default cross-shaped structure and
\* border_value=0: cells outside the raster count as 0.
Dilate(m) ==
    [c \in Cells |-> IF m[c] = 1 \/ \E d \in Nbrs4(c) : m[d] = 1 THEN 1 ELSE 0]

Erode(m) ==
    [c \in Cells |->
        IF /\ m[c] = 1
           /\ Row(c) > 0 /\ Row(c) < GridH - 1 /\ Col(c) > 0 /\ Col(c) < GridW - 1
           /\ \A d \in Nbrs4(c) : m[d] = 1
        THEN 1 ELSE 0]

\* binary_dilation / binary_erosion with iterations=n
RECURSIVE DilateN(_, _)
DilateN(n, m) == IF n = 0 THEN m ELSE DilateN(n - 1, Dilate(m))

RECURSIVE ErodeN(_, _)
ErodeN(n, m) == IF n = 0 THEN m ELSE ErodeN(n - 1, Erode(m))

\* scipy.ndimage.binary_closing(iterations=2) (line 443): the dilations, then
\* the erosions.
BinaryClosing(m) ==
    ErodeN(ClosingIterations, DilateN(ClosingIterations, m))

\* The raster written to out_valley_bottom (line 444).
GenerateVbetPolygon(vbet, chan, hand, threshold) ==
    LET valley_bottom        == RawValleyBottom(vbet, chan, hand, threshold)
        valley_bottom_sieved == SieveFilter(valley_bottom)
        regions              == Label(valley_bottom_sieved)
        valley_bottom_region == ValleyBottomRegion(regions, chan)
    IN  BinaryClosing(valley_bottom_region)

-----------------------------------------------------------------------------
(* Inputs of a run *)

\* The flowline networks of the model: the LevelPathI of each feature.
Networks == {<<9, 10, 9>>, <<10, 11>>, <<10>>}

\* The level_paths arguments of the model: those of a direct call of
\* vbet_centerlines and those that main derives from the command line.
Filters ==
    {NoFilter,
     [given |-> TRUE, items |-> <<>>],
     [given |-> TRUE, items |-> <<Str(10)>>],
     [given |-> TRUE, items |-> <<Str(9), Str(11)>>]}
       \cup {MainLevelPaths(arg) : arg \in LevelPathsArgs}

\* Channel-area polygons as sets of cells.
InShape(shape, c) ==
    CASE shape = "left"  -> Col(c) < GridW \div 2
      [] shape = "right" -> Col(c) >= GridW \div 2
      [] shape = "mid"   -> Col(c) > 0 /\ Col(c) < GridW - 1
      [] shape = "full"  -> TRUE
      [] shape = "banks" -> Col(c) = 0 \/ Col(c) = GridW - 1
      [] shape = "ends"  -> Col(c) < 3 \/ Col(c) > GridW - 4
      [] shape = "dot"   -> Row(c) = GridH \div 2 /\ Col(c) = GridW \div 2
      [] OTHER           -> FALSE

\* The groups a run can meet, and the channel areas of each
\* ("LevelPathI = <id>" or "LevelPathI is NULL", lines 220-223).
Groups == {Str(9), Str(10), Str(11), None}

ChannelAreas ==
    {[g \in Groups |->
        IF g = Str(9) THEN "left" ELSE IF g = Str(10) THEN "right"
        ELSE IF g = Str(11) THEN "mid" ELSE orphan] : orphan \in {"none", "mid"}}

\* rasterize(level_path_polygons, rasterized_channel, dem, all_touched=True)
Rasterize(shape) == [c \in Cells |-> IF InShape(shape, c) THEN 1 ELSE 0]

\* The watershed rasters in_rasters['Slope'] and in_rasters['TWI'], and the
\* zone rasters in_rasters['TRANSFORM_ZONE_<name>'].
SlopeRaster == [c \in Cells |-> IF Row(c) = 0 /\ Col(c) = 0 THEN NoData ELSE 1]
TwiRaster == [c \in Cells |-> IF Col(c) < GridW \div 2 THEN 0 ELSE 1]
ZoneRaster(name) == [c \in Cells |-> IF Row(c) < GridH \div 2 THEN 0 ELSE 1]

Abs(x) == IF x < 0 THEN -x ELSE x

\* The -dd raster of TauDEM dinfdistdown for the source raster chan: 0 on the
\* channel, growing with the distance to it, no-data when there is no channel.
HandOf(chan) ==
    [c \in Cells |->
        IF \A d \in Cells : chan[d] # 1 THEN NoData
        ELSE IF \E d \in Cells : chan[d] = 1 /\ Abs(Row(c) - Row(d)) + Abs(Col(c) - Col(d)) = 0 THEN 0
        ELSE IF \E d \in Cells : chan[d] = 1 /\ Abs(Row(c) - Row(d)) + Abs(Col(c) - Col(d)) = 1 THEN 1
        ELSE 2]

\* The pixel of every raster of read_rasters at cell c (line 260).
PixelAt(c, chan, hand) ==
    [Slope |-> SlopeRaster[c], HAND |-> hand[c], TWI |-> TwiRaster[c],
     Channel |-> chan[c],
     zone |-> [name \in Zones |-> ZoneRaster(name)[c]]]

\* The evidence raster written by the loop of lines 257-275.
FuseEvidence(chan, hand) == [c \in Cells |-> FusePixel(PixelAt(c, chan, hand))]

-----------------------------------------------------------------------------
(* Composite merge, vbet.py lines 322-358 *)

\* np.choose(index, choices), default mode: the index must name a choice.
Choose(index, choices) == choices[index + 1]

\* A cell of a composite raster: its value, and the level path group whose
\* local raster the value was read from.
Tagged(raster, lp) == [c \in Cells |-> [v |-> raster[c], by |-> lp]]

NoFile == [exists |-> FALSE, data |-> [c \in Cells |-> [v |-> 0, by |-> None]]]

\* Variants of the merge that differ from lines 323-358: the local raster
\* written everywhere; the composite created from the masked cells only; the
\* two choices of np.choose exchanged.
MergeRasterEverywhere(out, source, mask) == [exists |-> TRUE, data |-> source]

MergeRasterMaskedCreate(out, source, mask) ==
    [exists |-> TRUE,
     data |-> [c \in Cells |->
                 IF mask[c] = 1 THEN source[c]
                 ELSE IF out.exists THEN out.data[c] ELSE [v |-> NoData, by |-> None]]]

MergeRasterSwapped(out, source, mask) ==
    IF out.exists
    THEN [exists |-> TRUE,
          data |-> [c \in Cells |-> IF mask[c] = 1 THEN out.data[c] ELSE source[c]]]
    ELSE [exists |-> TRUE, data |-> source]

\* One pass of the loop body at line 323 for one composite raster `out`:
\* source is the local raster (tagged), mask the valley-bottom raster.
MergeRaster(out, source, mask) ==
    IF out.exists
    THEN [exists |-> TRUE,
          data |-> [c \in Cells |-> Choose(mask[c], <<out.data[c], source[c]>>)]]
    ELSE [exists |-> TRUE, data |-> source]

MergeBranch(out) == IF out.exists THEN "paint" ELSE "create"

-----------------------------------------------------------------------------
(* vbet_centerlines, one run after the other in the same project folder *)

Blank == [c \in Cells |-> 0]

\* Values of the variables that only the fusion and the extraction
\* specifications below use.
IdleBlock == [Slope |-> NoData, HAND |-> NoData, TWI |-> NoData, Channel |-> NoData,
              zone |-> [name \in Zones |-> 0]]
IdleVb == [threshold |-> 0, chan |-> Blank, hand |-> Blank, vbet |-> Blank,
           valley_bottom |-> Blank, valley_bottom_sieved |-> Blank, regions |-> Blank,
           valley_bottom_region |-> Blank, valley_bottom_clean |-> Blank]

\* No TauDEM call made yet; the optional rasters that the caller supplies.
\* The TauDEM products before a run: given holds the optional inputs passed
\* to vbet_centerlines, files the products present in the project folder,
\* calls the run_subprocess calls made, each with its exit status and the
\* output files it failed to produce.
IdleTaudem == [given |-> {}, files |-> {}, calls |-> <<>>]

\* The centerline stage before a level path reaches it: coords is the number
\* of endpoints get_endpoints returned, vbet_polygon the polygon of the
\* valley-bottom raster (line 281), polygon the return value of vbet_merge
\* ([some |-> FALSE] for None), centerline the local variable of that name
\* ([bound |-> FALSE] while it was never assigned), assigned the number of
\* the level path whose iteration assigned it last, centerline_intersected
\* the geometry name and the parts of the intersection, written the
\* features created in the centerline layer.
IdleCl == [coords |-> 2, vbet_polygon |-> {},
           polygon |-> [some |-> FALSE, geom |-> {}],
           centerline_full |-> {},
           centerline_intersected |-> [name |-> "none", parts |-> <<>>],
           centerline |-> [bound |-> FALSE, geom |-> {}], assigned |-> 0,
           written |-> <<>>]

\* No merge under way. out is the composite raster on disk, temp the file
\* temp_raster, window the next block window of the source, before the
\* composite as it was when the merge began.
IdleMg == [out |-> NoFile, temp |-> NoFile, window |-> 0, source |-> NoFile.data,
           mask |-> Blank, before |-> NoFile]

\* No pixel fused yet: Inputs is vbet_run['Inputs'], block the pixel read,
\* normalized, fvals_topo, fvals_channel and fvals_evidence the locals of
\* lines 262-272, written the value written at line 274.
IdleFz == [Inputs |-> <<>>, block |-> IdleBlock, normalized |-> <<>>,
           fvals_topo |-> [val |-> 0, mask |-> TRUE],
           fvals_channel |-> [val |-> 0, mask |-> TRUE],
           fvals_evidence |-> [val |-> 0, mask |-> TRUE],
           written |-> NoData]

\* No cost surface computed yet: the arrays of generate_centerline_surface.
\* cast is the way the float distances are stored in the Int32 proximity
\* band; rescaled holds the numerators of np.interp's result over the
\* common denominator span; a cost is 10 ** (exp / span) + pen * 10 ** 12.
IdleCs == [vbet |-> Blank, cast |-> "round", valley_bottom_inverse |-> Blank,
           proximity |-> Blank, span |-> 1, rescaled |-> Blank,
           cost_path |-> [c \in Cells |-> [exp |-> 0, pen |-> 0]]]

\* The level path of the current iteration.
LevelPath == level_paths_to_run[idx]

\* A fresh project folder: no composite raster, no run yet.
Init ==
    /\ pc = "idle"
    /\ run = 0
    /\ network \in Networks
    /\ chan_of \in ChannelAreas
    /\ level_paths = NoFilter
    /\ level_paths_to_run = <<>>
    /\ idx = 1
    /\ rasterized_channel = Blank
    /\ hand_raster = Blank
    /\ evidence_raster = Blank
    /\ valley_bottom_raster = Blank
    /\ active_valley_bottom_raster = Blank
    /\ out_hand = NoFile
    /\ out_vbet_evidence = NoFile
    /\ lyr_vbet = <<>>
    /\ lyr_vbet_ia = <<>>
    /\ lyr_cl = <<>>
    /\ processed = <<>>
    /\ products = <<>>
    /\ merge_log = <<>>
    /\ past = <<>>
    /\ block = IdleBlock
    /\ fused = NoData
    /\ vb = IdleVb
    /\ exception = "none"
    /\ exit_code = <<>>
    /\ taudem = IdleTaudem
    /\ cl = IdleCl
    /\ mg = IdleMg
    /\ fz = IdleFz
    /\ cs = IdleCs

\* Lines 89-212: a run starts (again) in the folder. The output geopackage is
\* deleted and its layers created empty (lines 113-115, 188-195); the
\* composite rasters are only named (lines 197-198); the list of level paths
\* is built (lines 200-210).
StartRun ==
    /\ pc \in {"idle", "done"}
    /\ run < MaxRuns
    /\ run' = run + 1
    /\ \E lps \in Filters, order \in Orderings(UniqueLevelPaths(network)) :
          /\ level_paths' = lps
          /\ level_paths_to_run' = LevelPathsToRun(order, lps)
    /\ idx' = 1
    /\ lyr_vbet' = <<>>
    /\ lyr_vbet_ia' = <<>>
    /\ lyr_cl' = <<>>
    /\ processed' = <<>>
    /\ products' = <<>>
    /\ merge_log' = <<>>
    /\ exception' = "none"
    /\ exit_code' = <<>>
    /\ cl' = IdleCl
    /\ pc' = "loop"
    /\ UNCHANGED <<network, chan_of, rasterized_channel, hand_raster, evidence_raster,
                   valley_bottom_raster, active_valley_bottom_raster, out_hand,
                   out_vbet_evidence, past, block, fused, vb, taudem, mg, fz, cs>>

\* Lines 110-172: the geopackages of the earlier run are deleted, then a
\* global TauDEM call of the setup (pitremove, dinfflowdir, twi) fails and
\* its exception ends the run before the layers are created and the loop
\* begins.
SetupFails ==
    /\ pc \in {"idle", "done"}
    /\ run < MaxRuns
    /\ run' = run + 1
    /\ lyr_vbet' = <<>>
    /\ lyr_vbet_ia' = <<>>
    /\ lyr_cl' = <<>>
    /\ processed' = <<>>
    /\ products' = <<>>
    /\ merge_log' = <<>>
    /\ cl' = IdleCl
    /\ exception' = "TauDEM: setup failed"
    /\ exit_code' = <<1>>
    /\ pc' = "failed"
    /\ UNCHANGED <<network, level_paths, chan_of, level_paths_to_run, idx,
                   rasterized_channel, hand_raster, evidence_raster, valley_bottom_raster,
                   active_valley_bottom_raster, out_hand, out_vbet_evidence, past, block,
                   fused, vb, taudem, mg, fz, cs>>

\* Lines 215-234: the next level path; its channel areas are rasterized.
RasterizeChannel ==
    /\ pc = "loop"
    /\ idx <= Len(level_paths_to_run)
    /\ rasterized_channel' = Rasterize(chan_of[LevelPath])
    /\ hand_raster' = Blank
    /\ evidence_raster' = Blank
    /\ valley_bottom_raster' = Blank
    /\ active_valley_bottom_raster' = Blank
    /\ pc' = "hand"
    /\ UNCHANGED <<run, network, level_paths, chan_of, level_paths_to_run, idx, out_hand,
                   out_vbet_evidence, lyr_vbet, lyr_vbet_ia, lyr_cl, processed, products,
                   merge_log, past, block, fused, vb,
                   exception, exit_code, taudem, cl, mg, fz, cs>>

\* Lines 236-241: TauDEM dinfdistdown writes the local HAND raster, or fails
\* (non-zero status or no output file) and the exception ends the run: main
\* logs it and exits with status 1 (lines 548-550).
DinfDistDown ==
    /\ pc = "hand"
    /\ \/ /\ hand_raster' = HandOf(rasterized_channel)
          /\ pc' = "fuse"
          /\ UNCHANGED <<exception, exit_code>>
       \/ /\ hand_raster' = hand_raster
          /\ exception' = "TauDEM: dinfdistdown failed"
          /\ exit_code' = <<1>>
          /\ pc' = "failed"
    /\ UNCHANGED <<run, network, level_paths, chan_of, level_paths_to_run, idx,
                   rasterized_channel, evidence_raster, valley_bottom_raster,
                   active_valley_bottom_raster, out_hand, out_vbet_evidence, lyr_vbet,
                   lyr_vbet_ia, lyr_cl, processed, products, merge_log, past, block,
                   fused, vb, taudem, cl, mg, fz, cs>>

\* Lines 243-275: the evidence raster of the level path.
Fuse ==
    /\ pc = "fuse"
    /\ evidence_raster' = FuseEvidence(rasterized_channel, hand_raster)
    /\ pc' = "vbet_full"
    /\ UNCHANGED <<run, network, level_paths, chan_of, level_paths_to_run, idx,
                   rasterized_channel, hand_raster, valley_bottom_raster,
                   active_valley_bottom_raster, out_hand, out_vbet_evidence, lyr_vbet,
                   lyr_vbet_ia, lyr_cl, processed, products, merge_log, past, block,
                   fused, vb,
                   exception, exit_code, taudem, cl, mg, fz, cs>>

\* Lines 277-283: the full valley bottom, merged into the full-extent layer.
VbetFull ==
    /\ pc = "vbet_full"
    /\ valley_bottom_raster' =
          GenerateVbetPolygon(evidence_raster, rasterized_channel, hand_raster, ThresholdFull)
    /\ lyr_vbet' = Append(lyr_vbet, LevelPath)
    /\ pc' = "vbet_ia"
    /\ UNCHANGED <<run, network, level_paths, chan_of, level_paths_to_run, idx,
                   rasterized_channel, hand_raster, evidence_raster,
                   active_valley_bottom_raster, out_hand, out_vbet_evidence,
                   lyr_vbet_ia, lyr_cl, processed, products, merge_log, past, block,
                   fused, vb,
                   exception, exit_code, taudem, cl, mg, fz, cs>>

\* Lines 285-290: the active valley bottom, merged into the active layer.
VbetActive ==
    /\ pc = "vbet_ia"
    /\ active_valley_bottom_raster' =
          GenerateVbetPolygon(evidence_raster, rasterized_channel, hand_raster, ThresholdActive)
    /\ lyr_vbet_ia' = Append(lyr_vbet_ia, LevelPath)
    /\ pc' = "centerline"
    /\ UNCHANGED <<run, network, level_paths, chan_of, level_paths_to_run, idx,
                   rasterized_channel, hand_raster, evidence_raster, valley_bottom_raster,
                   out_hand, out_vbet_evidence, lyr_vbet, lyr_cl, processed, products,
                   merge_log, past, block, fused, vb,
                   exception, exit_code, taudem, cl, mg, fz, cs>>

\* A variant of CreateFeature that leaves the new feature alone in the layer.
ReplaceFeatures(layer, level_path) == <<level_path>>

\* Lines 314-318: a feature with LevelPathI = str(level_path) is added to the
\* centerline layer.
CreateFeature(layer, level_path) == Append(layer, level_path)

\* Lines 292-319: a centerline feature is created for a level path, none for
\* the orphan group. get_endpoints returns the endpoints it found; with fewer
\* than two of them coords[0] or coords[1] at line 298 raises, nothing in
\* the loop catches it, and main (lines 548-550) exits with status 1.
Centerline ==
    /\ pc = "centerline"
    /\ \/ /\ LevelPath = None
          /\ pc' = "merge_hand"
          /\ UNCHANGED <<lyr_cl, cl, exception, exit_code>>
       \/ /\ LevelPath # None
          /\ \E n \in 0..2 :
                /\ cl' = [cl EXCEPT !.coords = n]
                /\ IF n = 2
                   THEN /\ lyr_cl' = CreateFeature(lyr_cl, LevelPath)
                        /\ pc' = "merge_hand"
                        /\ UNCHANGED <<exception, exit_code>>
                   ELSE /\ lyr_cl' = lyr_cl
                        /\ exception' = "IndexError"
                        /\ exit_code' = <<1>>
                        /\ pc' = "failed"
    /\ UNCHANGED <<run, network, level_paths, chan_of, level_paths_to_run, idx,
                   rasterized_channel, hand_raster, evidence_raster, valley_bottom_raster,
                   active_valley_bottom_raster, out_hand, out_vbet_evidence, lyr_vbet,
                   lyr_vbet_ia, processed, products, merge_log, past, block, fused, vb,
                   taudem, mg, fz, cs>>

\* Lines 322-358, first pass of the loop at line 323: the composite HAND.
MergeHand ==
    /\ pc = "merge_hand"
    /\ out_hand' = MergeRaster(out_hand, Tagged(hand_raster, LevelPath), valley_bottom_raster)
    /\ merge_log' = Append(merge_log,
                       [lp |-> LevelPath, raster |-> "hand", branch |-> MergeBranch(out_hand)])
    /\ pc' = "merge_evidence"
    /\ UNCHANGED <<run, network, level_paths, chan_of, level_paths_to_run, idx,
                   rasterized_channel, hand_raster, evidence_raster, valley_bottom_raster,
                   active_valley_bottom_raster, out_vbet_evidence, lyr_vbet, lyr_vbet_ia,
                   lyr_cl, processed, products, past, block, fused, vb,
                   exception, exit_code, taudem, cl, mg, fz, cs>>

\* Lines 322-361, second pass: the composite evidence; the iteration ends.
MergeEvidence ==
    /\ pc = "merge_evidence"
    /\ out_vbet_evidence' =
          MergeRaster(out_vbet_evidence, Tagged(evidence_raster, LevelPath), valley_bottom_raster)
    /\ merge_log' = Append(merge_log,
                       [lp |-> LevelPath, raster |-> "evidence",
                        branch |-> MergeBranch(out_vbet_evidence)])
    /\ processed' = Append(processed, LevelPath)
    /\ products' = Append(products,
                       [hand |-> hand_raster, evidence |-> evidence_raster,
                        mask |-> valley_bottom_raster])
    /\ idx' = idx + 1
    /\ pc' = "loop"
    /\ UNCHANGED <<run, network, level_paths, chan_of, level_paths_to_run,
                   rasterized_channel, hand_raster, evidence_raster, valley_bottom_raster,
                   active_valley_bottom_raster, out_hand, lyr_vbet, lyr_vbet_ia, lyr_cl,
                   past, block, fused, vb,
                   exception, exit_code, taudem, cl, mg, fz, cs>>

\* Lines 363-409 and 552: the loop is over, the run completes and main exits
\* with status 0.
FinishRun ==
    /\ pc = "loop"
    /\ idx > Len(level_paths_to_run)
    /\ past' = Append(past, [level_paths |-> level_paths, order |-> processed,
                             hand |-> out_hand, evidence |-> out_vbet_evidence])
    /\ exit_code' = <<0>>
    /\ pc' = "done"
    /\ UNCHANGED <<run, network, level_paths, chan_of, level_paths_to_run, idx,
                   rasterized_channel, hand_raster, evidence_raster, valley_bottom_raster,
                   active_valley_bottom_raster, out_hand, out_vbet_evidence, lyr_vbet,
                   lyr_vbet_ia, lyr_cl, processed, products, merge_log, block, fused, vb,
                   exception, taudem, cl, mg, fz, cs>>

Next ==
    \/ StartRun
    \/ SetupFails
    \/ RasterizeChannel
    \/ DinfDistDown
    \/ Fuse
    \/ VbetFull
    \/ VbetActive
    \/ Centerline
    \/ MergeHand
    \/ MergeEvidence
    \/ FinishRun

Spec == Init /\ [][Next]_vars

-----------------------------------------------------------------------------
(* Evidence fusion pixel by pixel: the body of the loop at line 257 over the
   values a pixel of the input rasters can hold *)

\* A pixel of the block read at line 260. A transform zone may name a
\* transform that the configuration does not have.
Blocks ==
    [Slope : RawVals \cup {NoData}, HAND : RawVals \cup {NoData},
     TWI : RawVals \cup {NoData}, Channel : {0, 1, NoData},
     zone : [Zones -> 0..2]]

\* The variables of the level path loop, which the next two specifications
\* leave alone.
LoopIdle ==
    /\ run = 0
    /\ network = <<>>
    /\ chan_of = [g \in Groups |-> "none"]
    /\ level_paths = NoFilter
    /\ level_paths_to_run = <<>>
    /\ idx = 1
    /\ rasterized_channel = Blank
    /\ hand_raster = Blank
    /\ evidence_raster = Blank
    /\ valley_bottom_raster = Blank
    /\ active_valley_bottom_raster = Blank
    /\ out_hand = NoFile
    /\ out_vbet_evidence = NoFile
    /\ lyr_vbet = <<>>
    /\ lyr_vbet_ia = <<>>
    /\ lyr_cl = <<>>
    /\ processed = <<>>
    /\ products = <<>>
    /\ merge_log = <<>>
    /\ past = <<>>
    /\ exception = "none"
    /\ exit_code = <<>>
    /\ taudem = IdleTaudem
    /\ cl = IdleCl
    /\ mg = IdleMg
    /\ fz = IdleFz
    /\ cs = IdleCs

loop_files ==
    <<run, network, level_paths, chan_of, level_paths_to_run, idx, rasterized_channel,
      hand_raster, evidence_raster, valley_bottom_raster, active_valley_bottom_raster,
      out_hand, out_vbet_evidence, lyr_vbet, lyr_vbet_ia, lyr_cl, processed, products,
      merge_log, past>>

loop_vars == <<loop_files, exception, exit_code, taudem, cl, mg, fz, cs>>

FuseInit ==
    /\ LoopIdle
    /\ pc = "fuse_read"
    /\ block = IdleBlock
    /\ fused = NoData
    /\ vb = IdleVb

\* Line 260: the next pixel is read, masked where it holds no-data.
ReadBlock ==
    /\ pc = "fuse_read"
    /\ block' \in Blocks
    /\ pc' = "fuse_write"
    /\ UNCHANGED <<loop_vars, fused, vb>>

\* Lines 262-274: the pixel is normalized, fused and written.
WriteEvidence ==
    /\ pc = "fuse_write"
    /\ fused' = FusePixel(block)
    /\ pc' = "fuse_read"
    /\ UNCHANGED <<loop_vars, block, vb>>

FuseNext ==
    \/ ReadBlock
    \/ WriteEvidence

FuseSpec == FuseInit /\ [][FuseNext]_vars

\* C8: at a pixel where the rasterized channel is 1 the fused evidence
\* written is at least the channel confidence 0.995, whatever the slope,
\* HAND and TWI values, no-data included.
C8_ChannelFloor ==
    (pc = "fuse_read" /\ block.Channel = 1) => fused >= ChannelConfidence

\* C10: a pixel that is no-data in Slope, HAND or TWI, be it in one of them
\* only, is written as no-data in the fused evidence.
C10_MaskPropagates ==
    (pc = "fuse_read" /\ (Masked(block.Slope) \/ Masked(block.HAND) \/ Masked(block.TWI)))
        => Masked(fused)

-----------------------------------------------------------------------------
(* generate_vbet_polygon step by step over a menu of level paths *)

\* The evidence rasters of the menu: the fused evidence of the model terrain,
\* no topographic evidence at all, a terrace of evidence 0.8 along the left
\* edge, full topographic evidence everywhere.
EvidenceOf(kind, chan, hand) ==
    CASE kind = "fused" -> FuseEvidence(chan, hand)
      [] kind = "flat"  -> [c \in Cells |-> ChannelConfidence * chan[c]]
      [] kind = "terrace" ->
            [c \in Cells |->
                IF chan[c] = 1 THEN ChannelConfidence
                ELSE IF Col(c) < 3 THEN (8 * Scale) \div 10 ELSE 0]
      [] OTHER          -> [c \in Cells |-> Scale]

VbInit ==
    /\ LoopIdle
    /\ pc = "vb_read"
    /\ block = IdleBlock
    /\ fused = NoData
    /\ vb = IdleVb

\* Lines 415-420: the three rasters are read and thresholded.
VbRead ==
    /\ pc = "vb_read"
    /\ \E shape \in {"left", "right", "mid", "full", "banks", "ends", "dot", "none"},
          kind \in {"fused", "flat", "terrace", "high"},
          threshold \in {ThresholdFull, ThresholdActive} :
          LET chan == Rasterize(shape)
              hand == HandOf(chan)
              vbet == EvidenceOf(kind, chan, hand)
          IN  vb' = [IdleVb EXCEPT !.threshold = threshold, !.chan = chan, !.hand = hand,
                                   !.vbet = vbet,
                                   !.valley_bottom =
                                       RawValleyBottom(vbet, chan, hand, threshold)]
    /\ pc' = "vb_sieve"
    /\ UNCHANGED <<loop_vars, block, fused>>

\* Lines 424-431
VbSieve ==
    /\ pc = "vb_sieve"
    /\ vb' = [vb EXCEPT !.valley_bottom_sieved = SieveFilter(vb.valley_bottom)]
    /\ pc' = "vb_label"
    /\ UNCHANGED <<loop_vars, block, fused>>

\* Lines 434-435
VbLabel ==
    /\ pc = "vb_label"
    /\ vb' = [vb EXCEPT !.regions = Label(vb.valley_bottom_sieved)]
    /\ pc' = "vb_select"
    /\ UNCHANGED <<loop_vars, block, fused>>

\* Lines 436-440
VbSelect ==
    /\ pc = "vb_select"
    /\ vb' = [vb EXCEPT !.valley_bottom_region = ValleyBottomRegion(vb.regions, vb.chan)]
    /\ pc' = "vb_close"
    /\ UNCHANGED <<loop_vars, block, fused>>

\* Lines 443-444: the closed raster is written to out_valley_bottom.
VbClose ==
    /\ pc = "vb_close"
    /\ vb' = [vb EXCEPT !.valley_bottom_clean = BinaryClosing(vb.valley_bottom_region)]
    /\ pc' = "vb_read"
    /\ UNCHANGED <<loop_vars, block, fused>>

VbNext ==
    \/ VbRead
    \/ VbSieve
    \/ VbLabel
    \/ VbSelect
    \/ VbClose

VbSpec == VbInit /\ [][VbNext]_vars

\* C9: every cell where the rasterized channel is 1 is 1 in the valley-bottom
\* raster generate_vbet_polygon writes, at both thresholds, whatever the
\* topographic evidence and the size or number of the channel pieces.
C9_ChannelInValleyBottom ==
    pc = "vb_read" =>
       \A c \in Cells : vb.chan[c] = 1 => vb.valley_bottom_clean[c] = 1

\* C11: the valley-bottom raster generate_vbet_polygon writes holds at most
\* one 8-connected component of cells set to 1.
C11_AtMostOneComponent ==
    pc = "vb_read" =>
       Len(Components({c \in Cells : vb.valley_bottom_clean[c] = 1})) <= 1

\* C12: for the same evidence, channel and HAND rasters every cell set in the
\* raster written with threshold 0.90 is set in the raster written with
\* threshold 0.68.
C12_ActiveWithinFull ==
    (pc = "vb_read" /\ vb.threshold = ThresholdActive) =>
       \A c \in Cells :
          vb.valley_bottom_clean[c] = 1 =>
             GenerateVbetPolygon(vb.vbet, vb.chan, vb.hand, ThresholdFull)[c] = 1

\* C13: the region selection keeps exactly the labelled components that hold
\* a channel cell: a cell is in valley_bottom_region if and only if its label
\* is a nonzero value of regions * chan.
C13_SelectsChannelComponents ==
    pc = "vb_close" =>
       \A c \in Cells :
          vb.valley_bottom_region[c] = 1 <=>
             (vb.regions[c] # 0 /\
              \E d \in Cells : vb.chan[d] = 1 /\ vb.regions[d] = vb.regions[c])

\* C14: when the channel raster has no cell set, or no labelled component
\* holds a channel cell, generate_vbet_polygon writes an all-zero raster (and
\* every step of it completes).
C14_NothingSelected ==
    (pc = "vb_read" /\
     \A d \in Cells : vb.chan[d] = 0 \/ vb.regions[d] = 0) =>
        \A c \in Cells : vb.valley_bottom_clean[c] = 0

\* A call whose channel has a cell set and whose labelled raster has a
\* component, none of them holding a channel cell, has written its raster.
C14_Witness ==
    /\ pc = "vb_read"
    /\ \E d \in Cells : vb.chan[d] = 1
    /\ \E d \in Cells : vb.regions[d] # 0
    /\ \A d \in Cells : vb.chan[d] = 0 \/ vb.regions[d] = 0
    /\ \A c \in Cells : vb.valley_bottom_clean[c] = 0

-----------------------------------------------------------------------------
(* The centerline stage, vbet.py lines 281-318, level path after level path.
   A geometry is the set of sample points of Pts it passes through or
   covers; Intersection is the intersection of these sets. *)

Pts == 1..MaxPts

ClInit ==
    /\ LoopIdle
    /\ pc = "cl_merge"
    /\ block = IdleBlock
    /\ fused = NoData
    /\ vb = IdleVb

Max(S) == CHOOSE x \in S : \A y \in S : y <= x

\* The parts of a GeometryCollection in their order; names gives each part
\* its geometry name.
RECURSIVE Parts(_, _)
Parts(geom, names) ==
    IF geom = {} THEN <<>>
    ELSE LET last == Max(geom)
         IN  Append(Parts(geom \ {last}, names), [name |-> names[last], geom |-> {last}])

\* Lines 305-308: centerline is created anew for every part of the
\* collection and the part is added to it when it is a LineString; with no
\* part the variable keeps the value it had.
RECURSIVE KeepLines(_, _)
KeepLines(centerline, parts) ==
    IF parts = <<>> THEN centerline
    ELSE KeepLines([bound |-> TRUE,
                    geom |-> IF Head(parts).name = "LineString"
                             THEN Head(parts).geom ELSE {}],
                   Tail(parts))

\* Lines 281-283: the valley-bottom raster is polygonized and vbet_merge
\* returns the merged polygon or None.
ClMerge ==
    /\ pc = "cl_merge"
    /\ Len(cl.written) < MaxPaths
    /\ \E g \in SUBSET Pts, some \in BOOLEAN :
          cl' = [cl EXCEPT !.vbet_polygon = g,
                           !.polygon = IF some THEN [some |-> TRUE, geom |-> g]
                                       ELSE [some |-> FALSE, geom |-> {}]]
    /\ pc' = "cl_path"
    /\ UNCHANGED <<loop_files, exception, exit_code, taudem, mg, block, fused, vb, fz, cs>>

\* Lines 296-300: the least-cost path between the two endpoints, as a line;
\* with fewer than two endpoints coords[0] or coords[1] raises.
ClPath ==
    /\ pc = "cl_path"
    /\ \E n \in 0..2 :
          IF n = 2
          THEN /\ \E line \in (SUBSET Pts) \ {{}} :
                     cl' = [cl EXCEPT !.coords = n, !.centerline_full = line]
               /\ pc' = "cl_clip"
               /\ UNCHANGED <<exception, exit_code>>
          ELSE /\ cl' = [cl EXCEPT !.coords = n]
               /\ exception' = "IndexError"
               /\ exit_code' = <<1>>
               /\ pc' = "failed"
    /\ UNCHANGED <<loop_files, taudem, mg, block, fused, vb, fz, cs>>

\* Lines 302-312: the line is intersected with the polygon vbet_merge
\* returned; the unclipped line is taken when it returned None. The
\* intersection is a line geometry, or a GeometryCollection when it has no
\* part or parts of different kinds (lines, and points where the path only
\* touches the polygon).
ClClip ==
    /\ pc = "cl_clip"
    /\ LET level_path == Len(cl.written) + 1 IN
       IF cl.polygon.some
       THEN LET geom == cl.polygon.geom \cap cl.centerline_full
            IN  \/ cl' = [cl EXCEPT
                            !.centerline_intersected = [name |-> "LineString", parts |-> <<>>],
                            !.centerline = [bound |-> TRUE, geom |-> geom],
                            !.assigned = level_path]
                \/ \E names \in [Pts -> {"LineString", "Point"}] :
                      LET parts == Parts(geom, names) IN
                      /\ geom # {} => \E p \in geom : names[p] = "Point"
                      /\ cl' = [cl EXCEPT
                               !.centerline_intersected =
                                   [name |-> "GeometryCollection", parts |-> parts],
                               !.centerline = KeepLines(cl.centerline, parts),
                               !.assigned = IF parts = <<>> THEN @ ELSE level_path]
       ELSE cl' = [cl EXCEPT
                     !.centerline_intersected = [name |-> "none", parts |-> <<>>],
                     !.centerline = [bound |-> TRUE, geom |-> cl.centerline_full],
                     !.assigned = level_path]
    /\ pc' = "cl_write"
    /\ UNCHANGED <<loop_files, exception, exit_code, taudem, mg, block, fused, vb, fz, cs>>

\* Lines 314-318: the feature is created with the geometry of centerline; a
\* centerline never assigned raises.
ClWrite ==
    /\ pc = "cl_write"
    /\ IF cl.centerline.bound
       THEN /\ cl' = [cl EXCEPT !.written =
                         Append(@, [LevelPathI |-> Len(@) + 1,
                                    geom |-> cl.centerline.geom,
                                    vbet_polygon |-> cl.vbet_polygon,
                                    merged |-> cl.polygon.some,
                                    centerline_intersected |-> cl.centerline_intersected,
                                    assigned |-> cl.assigned])]
            /\ pc' = "cl_merge"
            /\ UNCHANGED <<exception, exit_code>>
       ELSE /\ exception' = "UnboundLocalError"
            /\ exit_code' = <<1>>
            /\ pc' = "failed"
            /\ cl' = cl
    /\ UNCHANGED <<loop_files, taudem, mg, block, fused, vb, fz, cs>>

ClNext ==
    \/ ClMerge
    \/ ClPath
    \/ ClClip
    \/ ClWrite

ClSpec == ClInit /\ [][ClNext]_vars

\* C15: every non-empty geometry written to the centerline layer for a level
\* path lies within the polygon of that level path's full-extent valley
\* bottom, also when vbet_merge returned no polygon.
C15_CenterlineWithinPolygon ==
    \A i \in 1..Len(cl.written) :
        cl.written[i].geom # {} => cl.written[i].geom \subseteq cl.written[i].vbet_polygon

-----------------------------------------------------------------------------
(* The TauDEM calls of a run, vbet.py lines 142-172 and 236-241, and the
   exit of main, lines 548-552 *)

TaudemInputs == {"pitfill_dem", "dinfflowdir_ang", "dinfflowdir_slp", "twi_raster"}

SuInit ==
    /\ LoopIdle
    /\ pc = "su_start"
    /\ block = IdleBlock
    /\ fused = NoData
    /\ vb = IdleVb

\* The record of one run_subprocess call: the tool, its exit status and the
\* files, of those it is to write, that are not there afterwards.
Call(tool, status, outputs, written) ==
    [tool |-> tool, status |-> status, missing |-> outputs \ written]

\* raise Exception(...) in vbet_centerlines: main logs it and exits with 1.
Raise(message) ==
    /\ exception' = message
    /\ exit_code' = <<1>>
    /\ pc' = "failed"

\* The run starts with some of the optional TauDEM products given; these are
\* copied into the project by add_project_raster.
SuStart ==
    /\ pc = "su_start"
    /\ \E given \in SUBSET TaudemInputs :
          taudem' = [given |-> given, files |-> given, calls |-> <<>>]
    /\ pc' = "su_pitremove"
    /\ UNCHANGED <<loop_files, exception, exit_code, cl, mg, block, fused, vb, fz, cs>>

\* Lines 142-149.
Pitremove ==
    /\ pc = "su_pitremove"
    /\ IF "pitfill_dem" \in taudem.given
       THEN /\ pc' = "su_dinfflowdir"
            /\ UNCHANGED <<taudem, exception, exit_code>>
       ELSE \E pitfill_status \in {0, 1}, written \in SUBSET {"pitfill_dem"} :
               /\ taudem' = [taudem EXCEPT
                     !.files = @ \cup written,
                     !.calls = Append(@, Call("pitremove", pitfill_status,
                                              {"pitfill_dem"}, written))]
               /\ IF pitfill_status # 0 \/ "pitfill_dem" \notin taudem'.files
                  THEN Raise("TauDEM: pitfill failed")
                  ELSE /\ pc' = "su_dinfflowdir"
                       /\ UNCHANGED <<exception, exit_code>>
    /\ UNCHANGED <<loop_files, cl, mg, block, fused, vb, fz, cs>>

\* Lines 151-161: both rasters are computed unless both are given; only the
\* angle raster is looked for afterwards.
Dinfflowdir ==
    /\ pc = "su_dinfflowdir"
    /\ IF {"dinfflowdir_ang", "dinfflowdir_slp"} \subseteq taudem.given
       THEN /\ pc' = "su_twi"
            /\ UNCHANGED <<taudem, exception, exit_code>>
       ELSE \E dinfflowdir_status \in {0, 1},
               written \in SUBSET {"dinfflowdir_ang", "dinfflowdir_slp"} :
               /\ taudem' = [taudem EXCEPT
                     !.files = (@ \ {"dinfflowdir_ang", "dinfflowdir_slp"}) \cup written,
                     !.calls = Append(@, Call("dinfflowdir", dinfflowdir_status,
                                              {"dinfflowdir_ang", "dinfflowdir_slp"},
                                              written))]
               /\ IF dinfflowdir_status # 0 \/ "dinfflowdir_ang" \notin taudem'.files
                  THEN Raise("TauDEM: dinfflowdir failed")
                  ELSE /\ pc' = "su_twi"
                       /\ UNCHANGED <<exception, exit_code>>
    /\ UNCHANGED <<loop_files, cl, mg, block, fused, vb, fz, cs>>

\* Lines 163-170: twi reads the slope raster of dinfflowdir; without that
\* file the tool cannot succeed.
Twi ==
    /\ pc = "su_twi"
    /\ IF "twi_raster" \in taudem.given
       THEN /\ pc' = "su_loop"
            /\ UNCHANGED <<taudem, exception, exit_code>>
       ELSE \E twi_status \in {0, 1}, written \in SUBSET {"twi_raster"} :
               /\ "dinfflowdir_slp" \notin taudem.files => (twi_status = 1 /\ written = {})
               /\ taudem' = [taudem EXCEPT
                     !.files = @ \cup written,
                     !.calls = Append(@, Call("twi", twi_status, {"twi_raster"}, written))]
               /\ IF twi_status # 0 \/ "twi_raster" \notin taudem'.files
                  THEN Raise("TauDEM: TWI failed")
                  ELSE /\ pc' = "su_loop"
                       /\ UNCHANGED <<exception, exit_code>>
    /\ UNCHANGED <<loop_files, cl, mg, block, fused, vb, fz, cs>>

\* dinfdistdown calls made so far, one per level path.
HandCalls == Len(SelectSeq(taudem.calls, LAMBDA call : call.tool = "dinfdistdown"))

\* Lines 236-241, once per level path: the HAND raster of the level path.
SuDinfDistDown ==
    /\ pc = "su_loop"
    /\ HandCalls < MaxPaths
    /\ \E dinfdistdown_status \in {0, 1}, written \in SUBSET {"hand_raster"} :
          /\ taudem' = [taudem EXCEPT
                !.calls = Append(@, Call("dinfdistdown", dinfdistdown_status,
                                         {"hand_raster"}, written))]
          /\ IF dinfdistdown_status # 0 \/ "hand_raster" \notin written
             THEN Raise("TauDEM: dinfdistdown failed")
             ELSE /\ pc' = "su_loop"
                  /\ UNCHANGED <<exception, exit_code>>
    /\ UNCHANGED <<loop_files, cl, mg, block, fused, vb, fz, cs>>

\* Line 552: every level path is done and main exits with status 0.
SuExit ==
    /\ pc = "su_loop"
    /\ HandCalls = MaxPaths
    /\ exit_code' = <<0>>
    /\ pc' = "done"
    /\ UNCHANGED <<loop_files, exception, taudem, cl, mg, block, fused, vb, fz, cs>>

SuNext ==
    \/ SuStart
    \/ Pitremove
    \/ Dinfflowdir
    \/ Twi
    \/ SuDinfDistDown
    \/ SuExit

SuSpec == SuInit /\ [][SuNext]_vars

\* C18: every TauDEM call (pitremove, dinfflowdir, twi, dinfdistdown) that
\* ends with a non-zero status or without one of the files it is to produce
\* aborts the run: it is the last call made, no later stage runs and main
\* exits with a non-zero status.
C18_ToolchainFailureAborts ==
    \A i \in 1..Len(taudem.calls) :
        (taudem.calls[i].status # 0 \/ taudem.calls[i].missing # {}) =>
            /\ i = Len(taudem.calls)
            /\ pc = "failed"
            /\ exit_code = <<1>>

-----------------------------------------------------------------------------
(* The merge of one local raster into its composite, window by window,
   vbet.py lines 323-358. The block windows of the source are its rows. *)

Windows == 0..(GridH - 1)

MgInit ==
    /\ LoopIdle
    /\ pc = "mg_open"
    /\ block = IdleBlock
    /\ fused = NoData
    /\ vb = IdleVb

\* The rasters of a level path as the loop computes them (lines 232-279).
LocalRaster(lp, which) ==
    LET chan == Rasterize((CHOOSE areas \in ChannelAreas : TRUE)[lp])
        hand == HandOf(chan)
    IN  IF which = "hand" THEN hand ELSE FuseEvidence(chan, hand)
LocalMask(lp) ==
    LET chan == Rasterize((CHOOSE areas \in ChannelAreas : TRUE)[lp])
        hand == HandOf(chan)
    IN  GenerateVbetPolygon(FuseEvidence(chan, hand), chan, hand, ThresholdFull)

\* A raster file opened for writing with no window written yet.
Opened == [exists |-> TRUE, data |-> [c \in Cells |-> [v |-> NoData, by |-> None]]]

\* rio.write(array, window=window): the cells of the row are replaced.
WriteWindow(file, window, array) ==
    [file EXCEPT !.data = [c \in Cells |-> IF Row(c) = window THEN array[c] ELSE @[c]]]

\* Lines 324-332 and 347-352: the files are opened. The composite is absent
\* (first level path) or holds the merge of an earlier level path.
MgOpen ==
    /\ pc = "mg_open"
    /\ \E lp \in Groups \ {None}, which \in {"hand", "evidence"},
          earlier \in Groups :
          LET before == IF earlier = None \/ earlier = lp THEN NoFile
                        ELSE MergeRaster(NoFile, Tagged(LocalRaster(earlier, which), earlier),
                                         LocalMask(earlier))
          IN  mg' = [out |-> IF before.exists THEN before ELSE Opened,
                     temp |-> IF before.exists THEN Opened ELSE NoFile,
                     window |-> 0,
                     source |-> Tagged(LocalRaster(lp, which), lp),
                     mask |-> LocalMask(lp),
                     before |-> before]
    /\ pc' = "mg_window"
    /\ UNCHANGED <<loop_files, exception, exit_code, taudem, cl, block, fused, vb, fz, cs>>

\* Lines 333-341 and 353-356: one block window. With a composite on disk
\* the window goes to temp_raster, else straight into the new composite.
MgWindow ==
    /\ pc = "mg_window"
    /\ mg.window \in Windows
    /\ IF mg.before.exists
       THEN mg' = [mg EXCEPT
                     !.temp = WriteWindow(@, mg.window,
                                 [c \in Cells |->
                                    Choose(mg.mask[c], <<mg.out.data[c], mg.source[c]>>)]),
                     !.window = @ + 1]
       ELSE mg' = [mg EXCEPT
                     !.out = WriteWindow(@, mg.window, mg.source),
                     !.window = @ + 1]
    /\ pc' = "mg_window"
    /\ UNCHANGED <<loop_files, exception, exit_code, taudem, cl, block, fused, vb, fz, cs>>

\* Lines 342-345 and 357-358: the files are closed; temp_raster replaces the
\* composite.
MgClose ==
    /\ pc = "mg_window"
    /\ mg.window \notin Windows
    /\ mg' = IF mg.before.exists THEN [mg EXCEPT !.out = mg.temp] ELSE mg
    /\ pc' = "mg_open"
    /\ UNCHANGED <<loop_files, exception, exit_code, taudem, cl, block, fused, vb, fz, cs>>

\* Processing stops during the merge.
MgStop ==
    /\ pc = "mg_window"
    /\ pc' = "stopped"
    /\ UNCHANGED <<loop_files, exception, exit_code, taudem, cl, mg, block, fused, vb, fz, cs>>

MgNext ==
    \/ MgOpen
    \/ MgWindow
    \/ MgClose
    \/ MgStop

MgSpec == MgInit /\ [][MgNext]_vars

\* C19: when processing stops during the merge of a level path, the
\* composite raster on disk is either what it was before the merge or the
\* complete result of the merge, also for the level path that creates it.
C19_MergeAtomic ==
    pc = "stopped" =>
        \/ mg.out = mg.before
        \/ mg.out = MergeRaster(mg.before, mg.source, mg.mask)

-----------------------------------------------------------------------------
(* Evidence fusion of one pixel, vbet.py lines 260-274, statement by
   statement, under the configurations load_configuration may return *)

\* The rasters of in_rasters that hold a metric (lines 139, 169, 234, 241).
InRasters == {"Slope", "HAND", "TWI", "Channel"}

\* vbet_run['Inputs'] of the scenarios of the model: the three metrics, two
\* of them, and a list with a metric that has no raster.
InputLists ==
    {<<"Slope", "HAND", "TWI">>, <<"Slope", "HAND">>, <<"Slope", "HAND", "TWI", "Area">>}

\* A pixel of the block read at line 260; the zone rasters also hold ids
\* below 0 and above the last transform.
FzBlocks ==
    [Slope : RawVals \cup {NoData}, HAND : RawVals \cup {NoData},
     TWI : RawVals \cup {NoData}, Channel : {0, 1, NoData},
     zone : [Zones -> -1..2]]

FzInit ==
    /\ LoopIdle
    /\ pc = "fz_read"
    /\ block = IdleBlock
    /\ fused = NoData
    /\ vb = IdleVb

\* Lines 125 and 260: the configuration of the scenario, and the next pixel.
FzRead ==
    /\ pc = "fz_read"
    /\ \E inputs \in InputLists, px \in FzBlocks :
          fz' = [IdleFz EXCEPT !.Inputs = inputs, !.block = px]
    /\ pc' = "fz_normalize"
    /\ UNCHANGED <<loop_files, exception, exit_code, taudem, cl, mg, cs, block, fused, vb>>

\* Lines 262-268: normalized[name] for every name of vbet_run['Inputs'];
\* block[name] raises KeyError for a name with no raster.
FzNormalize ==
    /\ pc = "fz_normalize"
    /\ IF \E k \in 1..Len(fz.Inputs) : fz.Inputs[k] \notin InRasters
       THEN /\ Raise("KeyError")
            /\ fz' = fz
       ELSE /\ fz' = [fz EXCEPT !.normalized =
                         [name \in {fz.Inputs[k] : k \in 1..Len(fz.Inputs)} |->
                             Normalized(name, fz.block)]]
            /\ pc' = "fz_fuse"
            /\ UNCHANGED <<exception, exit_code>>
    /\ UNCHANGED <<loop_files, taudem, cl, mg, cs, block, fused, vb>>

\* Lines 270-274: the mean of normalized['Slope'], normalized['HAND'] and
\* normalized['TWI'], the channel confidence, their maximum, and the write.
FzFuse ==
    /\ pc = "fz_fuse"
    /\ IF ~({"Slope", "HAND", "TWI"} \subseteq DOMAIN fz.normalized)
       THEN /\ Raise("KeyError")
            /\ fz' = fz
       ELSE LET fvals_topo == MaMean(<<fz.normalized["Slope"], fz.normalized["HAND"],
                                       fz.normalized["TWI"]>>)
                fvals_channel == FvalsChannel(fz.block)
                fvals_evidence == MaMaximum(fvals_topo, fvals_channel)
            IN  /\ fz' = [fz EXCEPT !.fvals_topo = fvals_topo,
                                    !.fvals_channel = fvals_channel,
                                    !.fvals_evidence = fvals_evidence,
                                    !.written = IF fvals_evidence.mask THEN NoData
                                                ELSE fvals_evidence.val]
                /\ pc' = "fz_done"
                /\ UNCHANGED <<exception, exit_code>>
    /\ UNCHANGED <<loop_files, taudem, cl, mg, cs, block, fused, vb>>

\* Line 257: the loop goes on with the next window.
FzNextWindow ==
    /\ pc = "fz_done"
    /\ fz' = IdleFz
    /\ pc' = "fz_read"
    /\ UNCHANGED <<loop_files, exception, exit_code, taudem, cl, mg, cs, block, fused, vb>>

FzNext ==
    \/ FzRead
    \/ FzNormalize
    \/ FzFuse
    \/ FzNextWindow

FzSpec == FzInit /\ [][FzNext]_vars

\* C21: for every pixel that is unmasked in the rasters read, the
\* topographic evidence is the arithmetic mean of the normalized layers of
\* exactly the metrics of vbet_run['Inputs'], the channel confidence is
\* 0.995 times the channel raster, and the value written is the larger one.
C21_MeanOfConfiguredInputs ==
    LET px == fz.block
        n == Len(fz.Inputs)
        Sum[k \in 0..n] ==
            IF k = 0 THEN 0 ELSE Sum[k - 1] + Normalized(fz.Inputs[k], px).val
        Larger(a, b) == IF a >= b THEN a ELSE b
    IN  (pc \in {"fz_done", "failed"} /\ n > 0
         /\ ~Masked(px.Slope) /\ ~Masked(px.HAND) /\ ~Masked(px.TWI)
         /\ ~Masked(px.Channel)) =>
            /\ exception = "none"
            /\ fz.fvals_topo = [val |-> Sum[n] \div n, mask |-> FALSE]
            /\ fz.fvals_channel = [val |-> ChannelConfidence * px.Channel, mask |-> FALSE]
            /\ fz.written = Larger(Sum[n] \div n, ChannelConfidence * px.Channel)

\* C22: the normalized value of a zone-dependent metric at a pixel is the
\* transform at the index of the pixel's zone id, applied to the raw value;
\* that of a zone-independent metric is the first transform applied to it.
C22_TransformByZone ==
    pc = "fz_fuse" =>
        \A name \in DOMAIN fz.normalized :
            LET raw == fz.block[name]
                transforms == Transforms(name)
            IN  ~Masked(raw) =>
                   IF name \in Zones
                   THEN \A z \in 0..(Len(transforms) - 1) :
                           fz.block.zone[name] = z =>
                              fz.normalized[name] =
                                 [val |-> ApplyTransform(transforms[z + 1], raw),
                                  mask |-> FALSE]
                   ELSE fz.normalized[name] =
                           [val |-> ApplyTransform(transforms[1], raw), mask |-> FALSE]

\* A pixel in zone 1 whose slope is normalized by the second transform to a
\* value the first transform does not give, next to a zone-independent TWI.
C22_Witness ==
    /\ pc = "fz_fuse"
    /\ fz.block.zone["Slope"] = 1
    /\ fz.block.Slope = 1
    /\ fz.normalized["Slope"].val = ApplyTransform(Transforms("Slope")[2], 1)
    /\ fz.normalized["Slope"].val # ApplyTransform(Transforms("Slope")[1], 1)
    /\ "TWI" \in DOMAIN fz.normalized
    /\ fz.block.TWI = 2
    /\ fz.normalized["TWI"].val = Scale

\* C25: a pixel whose zone id names no transform of a zone-dependent metric
\* (below 0, or at least the number of transforms) makes the fusion fail:
\* its normalization never completes.
C25_UnconfiguredZoneFatal ==
    \A k \in 1..Len(fz.Inputs) :
        LET name == fz.Inputs[k] IN
        (name \in Zones /\ name \in InRasters
         /\ fz.block.zone[name] \notin 0..(Len(Transforms(name)) - 1)) =>
            pc \notin {"fz_fuse", "fz_done"}

-----------------------------------------------------------------------------
(* generate_centerline_surface, vbet.py lines 447-473, statement by
   statement over a menu of valley-bottom masks *)

\* Valley-bottom masks with a cell inside and a cell outside: the channel
\* shapes, their complements, and masks with a diagonal edge.
CsMasks ==
    {Rasterize(shape) : shape \in {"left", "mid", "banks", "ends", "dot"}}
    \cup {[c \in Cells |-> 1 - Rasterize(shape)[c]] :
             shape \in {"left", "mid", "banks", "ends", "dot"}}
    \cup {[c \in Cells |-> IF Row(c) + Col(c) < GridH + k THEN 1 ELSE 0] : k \in 0..2}
    \cup {[c \in Cells |-> IF Row(c) + Col(c) < GridH + k THEN 0 ELSE 1] : k \in 0..2}

\* Squared distance between the centres of two cells, in pixels.
Dist2(c, d) == (Row(c) - Row(d)) * (Row(c) - Row(d)) + (Col(c) - Col(d)) * (Col(c) - Col(d))

\* Squared distance of cell c to the nearest cell of targets.
NearestDist2(c, targets) == Min({Dist2(c, d) : d \in targets})

\* The square root of n2 as a GDT_Int32 band stores it: rounded to the
\* nearest integer, or cut to its integer part.
CastInt32(n2, cast) ==
    CHOOSE k \in 0..(GridW + GridH) :
        IF cast = "round"
        THEN (k = 0 \/ (2 * k - 1) * (2 * k - 1) <= 4 * n2)
             /\ 4 * n2 < (2 * k + 1) * (2 * k + 1)
        ELSE k * k <= n2 /\ n2 < (k + 1) * (k + 1)

\* gdal.ComputeProximity(..., ['VALUES=1', 'DISTUNITS=PIXEL']) into an Int32
\* band: the distance to the nearest cell that holds 1, 0 on those cells.
ComputeProximity(band, cast) ==
    LET targets == {d \in Cells : band[d] = 1}
    IN  [c \in Cells |-> CastInt32(NearestDist2(c, targets), cast)]

CsInit ==
    /\ LoopIdle
    /\ pc = "cs_read"
    /\ block = IdleBlock
    /\ fused = NoData
    /\ vb = IdleVb

\* Line 449: the valley-bottom raster is read.
CsRead ==
    /\ pc = "cs_read"
    /\ \E mask \in CsMasks, cast \in {"round", "floor"} :
          cs' = [IdleCs EXCEPT !.vbet = mask, !.cast = cast]
    /\ pc' = "cs_inverse"
    /\ UNCHANGED <<loop_files, exception, exit_code, taudem, cl, mg, fz, block, fused, vb>>

\* Lines 452-454.
CsInverse ==
    /\ pc = "cs_inverse"
    /\ cs' = [cs EXCEPT !.valley_bottom_inverse =
                 [c \in Cells |-> IF cs.vbet[c] # 1 THEN 1 ELSE 0]]
    /\ pc' = "cs_proximity"
    /\ UNCHANGED <<loop_files, exception, exit_code, taudem, cl, mg, fz, block, fused, vb>>

\* Lines 457-464.
CsProximity ==
    /\ pc = "cs_proximity"
    /\ cs' = [cs EXCEPT !.proximity = ComputeProximity(cs.valley_bottom_inverse, cs.cast)]
    /\ pc' = "cs_rescale"
    /\ UNCHANGED <<loop_files, exception, exit_code, taudem, cl, mg, fz, block, fused, vb>>

\* Lines 467-469: np.interp(proximity, (min, max), (0.0, 10.0)).
CsRescale ==
    /\ pc = "cs_rescale"
    /\ LET lo == Min({cs.proximity[c] : c \in Cells})
           hi == Max({cs.proximity[c] : c \in Cells})
       IN  cs' = [cs EXCEPT !.span = hi - lo,
                            !.rescaled = [c \in Cells |-> 10 * (cs.proximity[c] - lo)]]
    /\ pc' = "cs_cost"
    /\ UNCHANGED <<loop_files, exception, exit_code, taudem, cl, mg, fz, block, fused, vb>>

\* Lines 472-473: 10 ** (-rescaled + 10) + (rescaled <= 0) * 1e12.
CsCost ==
    /\ pc = "cs_cost"
    /\ cs' = [cs EXCEPT !.cost_path =
                 [c \in Cells |->
                     [exp |-> 10 * cs.span - cs.rescaled[c],
                      pen |-> IF cs.rescaled[c] <= 0 THEN 1 ELSE 0]]]
    /\ pc' = "cs_read"
    /\ UNCHANGED <<loop_files, exception, exit_code, taudem, cl, mg, fz, block, fused, vb>>

CsNext ==
    \/ CsRead
    \/ CsInverse
    \/ CsProximity
    \/ CsRescale
    \/ CsCost

CsSpec == CsInit /\ [][CsNext]_vars

\* C24: in the cost surface of a mask with a cell inside and a cell outside,
\* every cell outside the mask carries the 1e12 penalty and no cell inside
\* does; of two cells inside, the one farther from the nearest outside cell
\* costs strictly less; every outside cell costs more than every inside one.
C24_CostSurface ==
    LET inside == {c \in Cells : cs.vbet[c] = 1}
        outside == Cells \ inside
        \* 10 ** (a.exp / span) + a.pen * 1e12 < 10 ** (b.exp / span) + b.pen * 1e12,
        \* the first term lying between 1 and 1e10
        Less(a, b) == a.pen < b.pen \/ (a.pen = b.pen /\ a.exp < b.exp)
    IN  (pc = "cs_read" /\ inside # {} /\ outside # {}) =>
           /\ \A c \in outside : cs.cost_path[c].pen = 1
           /\ \A c \in inside : cs.cost_path[c].pen = 0
           /\ \A c, d \in inside :
                 NearestDist2(c, outside) > NearestDist2(d, outside) =>
                    Less(cs.cost_path[c], cs.cost_path[d])
           /\ \A c \in outside : \A d \in inside : Less(cs.cost_path[d], cs.cost_path[c])

-----------------------------------------------------------------------------
(* Properties of the level path loop, checked under Spec *)

\* C1: the level paths are processed in ascending numeric order of their
\* id, the orphan group last: of two processed ids a and b with
\* int(a) < int(b), a is processed before b.
C1_NumericOrder ==
    /\ \A i, j \in 1..Len(processed) :
          (processed[i] # None /\ processed[j] # None
              /\ ToInt(processed[i]) < ToInt(processed[j])) => i < j
    /\ \A i \in 1..Len(processed) : processed[i] = None => i = Len(level_paths_to_run)

\* C2: in one run every distinct level path id of the network, restricted to
\* the ids named in the level_paths filter when one is given (a non-empty
\* list), is processed exactly once, and the orphan group is processed
\* exactly once, after every level path, whatever the filter. No group is
\* processed twice at any point of the run; a completed run has processed
\* them all.
C2_EachOnce ==
    LET ids == {network[i] : i \in 1..Len(network)}
        filtered == level_paths.given /\ level_paths.items # <<>>
        expected == {n \in ids : filtered =>
                        \E k \in 1..Len(level_paths.items) : level_paths.items[k] = Str(n)}
        times(s) == Cardinality({i \in 1..Len(processed) : processed[i] = s})
    IN  /\ \A i \in 1..Len(processed) :
              /\ times(processed[i]) = 1
              /\ processed[i] # None => ToInt(processed[i]) \in expected
              /\ processed[i] = None => i = Len(processed)
        /\ pc = "done" =>
              /\ \A n \in expected : times(Str(n)) = 1
              /\ times(None) = 1
              /\ processed[Len(processed)] = None
              /\ Len(processed) = Cardinality(expected) + 1

\* A completed run on a network with two features of one level path, under a
\* filter that names one id of the network and leaves another one out.
C2_Witness ==
    /\ pc = "done"
    /\ level_paths.given /\ level_paths.items # <<>>
    /\ \E i, j \in 1..Len(network) : i # j /\ network[i] = network[j]
    /\ \E i \in 1..Len(network) : \A k \in 1..Len(processed) : processed[k] # Str(network[i])
    /\ Len(processed) = 2
    /\ processed[1] # None

\* C3: when a level path is merged into a composite raster that exists,
\* every cell where its valley-bottom mask is 1 takes the local value and
\* every cell where the mask is 0 keeps the value it had; the composites
\* change in no other step of the loop.
C3_PaintFrame ==
    [][ /\ (pc = "merge_hand" /\ out_hand.exists) =>
              \A c \in Cells :
                 /\ valley_bottom_raster[c] = 1 => out_hand'.data[c].v = hand_raster[c]
                 /\ valley_bottom_raster[c] = 0 => out_hand'.data[c] = out_hand.data[c]
        /\ (pc = "merge_evidence" /\ out_vbet_evidence.exists) =>
              \A c \in Cells :
                 /\ valley_bottom_raster[c] = 1 =>
                       out_vbet_evidence'.data[c].v = evidence_raster[c]
                 /\ valley_bottom_raster[c] = 0 =>
                       out_vbet_evidence'.data[c] = out_vbet_evidence.data[c]
        /\ pc # "merge_hand" => out_hand' = out_hand
        /\ pc # "merge_evidence" => out_vbet_evidence' = out_vbet_evidence
      ]_vars

\* The composite HAND was just painted: a cell inside the mask holds the
\* value of the level path, a cell outside holds another group's value.
C3_Witness ==
    /\ pc = "merge_evidence"
    /\ merge_log[Len(merge_log)] = [lp |-> LevelPath, raster |-> "hand", branch |-> "paint"]
    /\ \E c, d \in Cells :
          /\ valley_bottom_raster[c] = 1
          /\ out_hand.data[c] = [v |-> hand_raster[c], by |-> LevelPath]
          /\ valley_bottom_raster[d] = 0
          /\ out_hand.data[d].by # LevelPath
          /\ out_hand.data[d].v # hand_raster[d]

\* C4: a composite raster holds a level path's local value only at cells
\* inside that level path's valley-bottom mask.
C4_OnlyInsideMask ==
    \A i \in 1..Len(processed) : \A c \in Cells :
        /\ (out_hand.exists /\ out_hand.data[c].by = processed[i]) =>
              products[i].mask[c] = 1
        /\ (out_vbet_evidence.exists /\ out_vbet_evidence.data[c].by = processed[i]) =>
              products[i].mask[c] = 1

\* C5: a merge into a composite raster that does not exist creates it equal
\* to the level path's local raster, and every later level path of the run
\* finds the composite and takes the paint branch.
C5_FirstWriterCreates ==
    [][ /\ (pc = "merge_hand" /\ ~out_hand.exists) =>
              /\ out_hand'.exists
              /\ \A c \in Cells : out_hand'.data[c].v = hand_raster[c]
        /\ (pc = "merge_evidence" /\ ~out_vbet_evidence.exists) =>
              /\ out_vbet_evidence'.exists
              /\ \A c \in Cells : out_vbet_evidence'.data[c].v = evidence_raster[c]
        /\ (pc = "merge_hand" /\ idx > 1) =>
              /\ out_hand.exists
              /\ merge_log'[Len(merge_log')].branch = "paint"
        /\ (pc = "merge_evidence" /\ idx > 1) =>
              /\ out_vbet_evidence.exists
              /\ merge_log'[Len(merge_log')].branch = "paint"
      ]_vars

\* The first level path of a run created both composites and the two groups
\* after it painted into them.
C5_Witness ==
    /\ Len(merge_log) = 6
    /\ \A k \in 1..6 : merge_log[k].branch = (IF k <= 2 THEN "create" ELSE "paint")
    /\ \E c \in Cells : products[1].mask[c] = 0 /\ products[1].hand[c] # NoData

\* C6: at the end of a run every cell covered by the valley-bottom mask of
\* at least one processed level path holds, in each composite raster, the
\* local value of the last processed level path whose mask covers it.
C6_LastCoveringWins ==
    pc = "done" =>
       \A c \in Cells :
          LET covering == {i \in 1..Len(processed) : products[i].mask[c] = 1} IN
          covering # {} =>
             LET last == CHOOSE i \in covering : \A j \in covering : j <= i IN
                /\ out_hand.data[c] = [v |-> products[last].hand[c], by |-> processed[last]]
                /\ out_vbet_evidence.data[c] =
                      [v |-> products[last].evidence[c], by |-> processed[last]]

\* A completed run with a cell covered by two masks whose local values
\* differ there, and a cell covered by one mask only.
C6_Witness ==
    /\ pc = "done"
    /\ \E c \in Cells : \E i, j \in 1..Len(processed) :
          /\ i < j
          /\ products[i].mask[c] = 1 /\ products[j].mask[c] = 1
          /\ products[i].hand[c] # products[j].hand[c]
          /\ products[i].evidence[c] # products[j].evidence[c]
    /\ \E d \in Cells : \E i, j \in 1..Len(processed) :
          /\ products[i].mask[d] = 1
          /\ \A k \in 1..Len(processed) : k # i => products[k].mask[d] = 0
          /\ products[j].hand[d] # products[i].hand[d]

\* C7: two runs on the same inputs (network, rasters, configuration and
\* level_paths filter) process the level paths in the same order and end
\* with the same cell values in the composite HAND and evidence rasters.
C7_Reproducible ==
    \A a, b \in 1..Len(past) :
        past[a].level_paths = past[b].level_paths =>
           /\ past[a].order = past[b].order
           /\ \A c \in Cells :
                 /\ past[a].hand.data[c].v = past[b].hand.data[c].v
                 /\ past[a].evidence.data[c].v = past[b].evidence.data[c].v

\* C16: a level path whose two endpoints cannot be determined does not make
\* the run fail: no exception ends the run and the run does not exit with
\* status 1, so that its rasters can still be painted into the composites.
C16_NoEndpointsNotFatal ==
    (pc # "idle" /\ cl.coords < 2) =>
        /\ exception = "none"
        /\ pc # "failed"
        /\ exit_code # <<1>>

\* C17: an error raised while a level path is processed, other than a
\* failure of the external toolchain, is caught within the loop: the run
\* is not ended by it and goes on with the next level path.
C17_OnlyToolchainEndsRun ==
    pc = "failed" =>
        exception \in {"TauDEM: setup failed", "TauDEM: dinfdistdown failed"}

\* C20: after a run that completes the centerline layer holds exactly one
\* feature for every processed level path, with that level path's id in
\* LevelPathI, and no other feature; each of the two polygon layers has
\* received exactly one merge for every processed group; while the loop
\* runs the three layers only grow at their end.
C20_OneFeaturePerLevelPath ==
    /\ [](pc = "done" =>
            LET Times(layer, s) == Cardinality({i \in 1..Len(layer) : layer[i] = s})
            IN  /\ \A k \in 1..Len(processed) :
                      /\ processed[k] # None => Times(lyr_cl, processed[k]) = 1
                      /\ Times(lyr_vbet, processed[k]) = 1
                      /\ Times(lyr_vbet_ia, processed[k]) = 1
                /\ \A i \in 1..Len(lyr_cl) :
                      lyr_cl[i] # None /\ \E k \in 1..Len(processed) : processed[k] = lyr_cl[i]
                /\ Len(lyr_vbet) = Len(processed)
                /\ Len(lyr_vbet_ia) = Len(processed))
    /\ [][pc \notin {"idle", "done"} =>
            /\ Len(lyr_cl) <= Len(lyr_cl')
            /\ \A i \in 1..Len(lyr_cl) : lyr_cl'[i] = lyr_cl[i]
            /\ Len(lyr_vbet) <= Len(lyr_vbet')
            /\ \A i \in 1..Len(lyr_vbet) : lyr_vbet'[i] = lyr_vbet[i]
            /\ Len(lyr_vbet_ia) <= Len(lyr_vbet_ia')
            /\ \A i \in 1..Len(lyr_vbet_ia) : lyr_vbet_ia'[i] = lyr_vbet_ia[i]]_vars

\* A completed run that processed two level paths and the orphan group.
C20_Witness ==
    /\ pc = "done"
    /\ Len(processed) = 3
    /\ Len(lyr_cl) = 2
    /\ lyr_cl[1] # lyr_cl[2]
    /\ Len(lyr_vbet) = 3
    /\ Len(lyr_vbet_ia) = 3

\* C27: wherever a run ends, normally or through an exception, the level
\* paths with a polygon in the full-extent layer are those with a polygon in
\* the active layer, and those painted into the composite HAND raster and
\* into the composite evidence raster.
C27_OutputsConsistent ==
    LET Painted(raster) ==
            {merge_log[i].lp : i \in {j \in 1..Len(merge_log) : merge_log[j].raster = raster}}
        full == {lyr_vbet[i] : i \in 1..Len(lyr_vbet)}
        active == {lyr_vbet_ia[i] : i \in 1..Len(lyr_vbet_ia)}
    IN  pc \in {"done", "failed"} =>
           /\ full = active
           /\ active = Painted("hand")
           /\ Painted("hand") = Painted("evidence")

\* C28: a run starts from clean outputs: the composite HAND and evidence
\* rasters of a completed run hold the values that the merges of this run's
\* level paths give when the first of them finds no composite raster.
C28_CleanStart ==
    LET n == Len(processed)
        CleanHand[k \in 0..n] ==
            IF k = 0 THEN NoFile
            ELSE MergeRaster(CleanHand[k - 1], Tagged(products[k].hand, processed[k]),
                             products[k].mask)
        CleanEvidence[k \in 0..n] ==
            IF k = 0 THEN NoFile
            ELSE MergeRaster(CleanEvidence[k - 1],
                             Tagged(products[k].evidence, processed[k]), products[k].mask)
    IN  pc = "done" =>
           \A c \in Cells :
              /\ out_hand.data[c].v = CleanHand[n].data[c].v
              /\ out_vbet_evidence.data[c].v = CleanEvidence[n].data[c].v

\* C29: when main is run without the --level_paths option no filter is
\* applied: a completed run has processed every level path of the flowline
\* network, in ascending order, followed by the orphan group.
C29_DefaultRunsEveryLevelPath ==
    (pc = "done" /\ level_paths = MainLevelPaths(DefaultLevelPathsArg)) =>
        /\ \E order \in Orderings(UniqueLevelPaths(network)) :
              level_paths_to_run = LevelPathsToRun(order, NoFilter)
        /\ processed = level_paths_to_run

\* C30: the binary closing of generate_vbet_polygon only adds cells: every
\* cell of the selected channel-connected region is 1 in the valley-bottom
\* raster that is written, the cells within two cells of the raster border
\* included.
C30_ClosingOnlyAdds ==
    pc = "vb_read" =>
       \A c \in Cells : vb.valley_bottom_region[c] = 1 => vb.valley_bottom_clean[c] = 1

=============================================================================
